---- MODULE Spec2Model ----
(***************************************************************************)
(* MCP client lifecycle of magic-vibe: init-clients.py (McpClientManager), *)
(* cleanup-clients.py (McpClientCleanup) and diagnose-errors.py            *)
(* (McpErrorDiagnostic).  The three scripts are separate processes that    *)
(* share one JSON document, mcp-config.json.                               *)
(*                                                                         *)
(* A Python dict is a function whose DOMAIN is its set of keys (Get/Put).  *)
(* A text is a sequence of one-character strings.  datetime.utcnow() reads *)
(* `clock`, which advances when a process starts.  A list that the code    *)
(* builds from dict keys (activeConnections) is kept as the set of its     *)
(* elements: it has no duplicates and no code path reads its order.        *)
(***************************************************************************)
EXTENDS Integers, Sequences, FiniteSets, TLC

VARIABLES
    disk,         \* mcp-config.json: [state: "absent" | "malformed" | "ok", doc]
    out,          \* per process: the write-only documents it has written
                  \* (execution-metrics.json, cleanup-summary.json,
                  \* diagnostic-report.json), by name
    tempFiles,    \* transient files in the task directory
    clock,        \* wall clock
    kind,         \* per process: which script it runs
    pc,           \* per process: position in the script
    args,         \* per process: command-line arguments
    config,       \* per process: self.config
    clients,      \* per process: McpClientManager.clients
    required,     \* per process: required_clients of initialize_all_clients
    attempts,     \* per process: state of each initialize_client task of the gather
    results,      \* per process: what each initialize_client task returned
    todo,         \* per process: clients the running health_check loop has yet to probe
    calls,        \* per process: what the running script has done so far
    ret,          \* per process: perform_cleanup / generate_diagnostic_report result
    exitCode,     \* per process: -1 while running, else the exit status
    snap          \* document on disk when the running process started (history)

vars == <<disk, out, tempFiles, clock, kind, pc,
          args, config, clients, required, attempts, results, todo, calls, ret, exitCode,
          snap>>

-----------------------------------------------------------------------------
(* Bounds *)

\* process starts in one behaviour
MaxRuns == 3
\* health_check calls on one manager
MaxHealthChecks == 2

Procs == {1, 2}
\* the processes of the one-at-a-time specification
SeqProcs == {1}

\* Python's None, and x when present: an optional value is a sequence of length <= 1
None == <<>>
Some(x) == <<x>>

-----------------------------------------------------------------------------
(* Python dicts *)

EmptyDict == [k \in {} |-> 0]
Get(c, k, default) == IF k \in DOMAIN c THEN c[k] ELSE default
\* c.get(k) where the absent key gives None
GetOpt(c, k) == IF k \in DOMAIN c THEN Some(c[k]) ELSE None
Put(c, k, v) == [j \in DOMAIN c \cup {k} |-> IF j = k THEN v ELSE c[j]]

-----------------------------------------------------------------------------
(* Texts *)

UpperChars == <<"A","B","C","D","E","F","G","H","I","J","K","L","M",
                "N","O","P","Q","R","S","T","U","V","W","X","Y","Z">>
LowerChars == <<"a","b","c","d","e","f","g","h","i","j","k","l","m",
                "n","o","p","q","r","s","t","u","v","w","x","y","z">>

\* str.lower()
lower(t) ==
    [i \in 1..Len(t) |->
        IF \E j \in 1..26 : UpperChars[j] = t[i]
        THEN LowerChars[CHOOSE j \in 1..26 : UpperChars[j] = t[i]]
        ELSE t[i]]

\* keyword in text
Contains(t, kw) ==
    \E s \in 0..(Len(t) - Len(kw)) : \A i \in 1..Len(kw) : t[s + i] = kw[i]

\* any(keyword in feature or keyword in title for keyword in keywords)
AnyKeyword(keywords, feature, title) ==
    \E k \in 1..Len(keywords) :
        Contains(feature, keywords[k]) \/ Contains(title, keywords[k])

db_keywords ==
    << <<"d","a","t","a","b","a","s","e">>, <<"s","q","l">>, <<"q","u","e","r","y">>,
       <<"m","i","g","r","a","t","i","o","n">>, <<"s","c","h","e","m","a">>,
       <<"d","a","t","a">> >>
fs_keywords ==
    << <<"f","i","l","e">>, <<"d","i","r","e","c","t","o","r","y">>,
       <<"u","p","l","o","a","d">>, <<"d","o","w","n","l","o","a","d">>,
       <<"s","t","o","r","a","g","e">>, <<"i","m","p","o","r","t">>,
       <<"e","x","p","o","r","t">> >>
github_keywords ==
    << <<"g","i","t","h","u","b">>, <<"r","e","p","o","s","i","t","o","r","y">>,
       <<"c","o","m","m","i","t">>, <<"b","r","a","n","c","h">>, <<"p","r">>,
       <<"p","u","l","l"," ","r","e","q","u","e","s","t">> >>
api_keywords ==
    << <<"a","p","i">>, <<"r","e","s","t">>, <<"e","n","d","p","o","i","n","t">>,
       <<"s","e","r","v","i","c","e">>,
       <<"i","n","t","e","g","r","a","t","i","o","n">>,
       <<"w","e","b","h","o","o","k">> >>

\* the (feature, taskTitle) texts a task document is created with
TaskTexts == { << <<>>, <<>> >>,
               << <<>>, <<"A","P","I">> >>,
               << <<"D","a","t","a"," ","e","x","p","o","r","t">>, <<>> >> }

-----------------------------------------------------------------------------
(* Requirement detection (init-clients.py) *)

requires_database(cfg) ==
    AnyKeyword(db_keywords, lower(Get(cfg, "feature", <<>>)),
               lower(Get(cfg, "taskTitle", <<>>)))
requires_filesystem(cfg) ==
    AnyKeyword(fs_keywords, lower(Get(cfg, "feature", <<>>)),
               lower(Get(cfg, "taskTitle", <<>>)))
requires_github(cfg) ==
    AnyKeyword(github_keywords, lower(Get(cfg, "feature", <<>>)),
               lower(Get(cfg, "taskTitle", <<>>)))
requires_api(cfg) ==
    AnyKeyword(api_keywords, lower(Get(cfg, "feature", <<>>)),
               lower(Get(cfg, "taskTitle", <<>>)))

\* one client_config: name, type and the launch command
Requirement(name, command) == [name |-> name, type |-> name, command |-> command]

\* mutant: the four checks form an if/elif chain
detect_required_clients_firstOnly(cfg) ==
    IF requires_database(cfg) THEN <<Requirement("database", "python")>>
    ELSE IF requires_filesystem(cfg) THEN <<Requirement("filesystem", "python")>>
    ELSE IF requires_github(cfg) THEN <<Requirement("github", "npx")>>
    ELSE IF requires_api(cfg) THEN <<Requirement("api", "python")>>
    ELSE <<>>

\* the list detect_required_clients returns
detect_required_clients(cfg) ==
    (IF requires_database(cfg) THEN <<Requirement("database", "python")>> ELSE <<>>)
    \o (IF requires_filesystem(cfg) THEN <<Requirement("filesystem", "python")>> ELSE <<>>)
    \o (IF requires_github(cfg) THEN <<Requirement("github", "npx")>> ELSE <<>>)
    \o (IF requires_api(cfg) THEN <<Requirement("api", "python")>> ELSE <<>>)

ClientNames == {"database", "filesystem", "github", "api"}

NamesOf(reqs) == {reqs[i].name : i \in 1..Len(reqs)}

-----------------------------------------------------------------------------
(* Initial state *)

\* a task document as the orchestrator creates it: no client data yet
FreshDoc(f, t) == [feature |-> f, taskTitle |-> t]

FileOk(doc) == [state |-> "ok", doc |-> doc]
FileAbsent == [state |-> "absent", doc |-> EmptyDict]
\* an empty or truncated file: json.load raises JSONDecodeError
FileMalformed == [state |-> "malformed", doc |-> EmptyDict]

NoCalls == [saves |-> 0, saved |-> "none", failedWrites |-> {}, hc |-> 0,
            disconnects |-> {}, disconnectErrors |-> {}, overlap |-> FALSE,
            probed |-> {}, probeErrors |-> {}, metrics |-> None, summary |-> None,
            unlinkErrors |-> {}, racedLoad |-> FALSE]

FinalStatuses == {"completed", "failed"}

\* the transient files of the task directory (each matches a temp pattern)
TempNames == {"run.log"}

\* no script has been started
InitProcs ==
    /\ out = [p \in Procs |-> EmptyDict]
    /\ tempFiles = TempNames
    /\ clock = 0
    /\ kind = [p \in Procs |-> "none"]
    /\ pc = [p \in Procs |-> "idle"]
    /\ args = [p \in Procs |-> EmptyDict]
    /\ config = [p \in Procs |-> EmptyDict]
    /\ clients = [p \in Procs |-> EmptyDict]
    /\ required = [p \in Procs |-> <<>>]
    /\ attempts = [p \in Procs |-> EmptyDict]
    /\ results = [p \in Procs |-> EmptyDict]
    /\ todo = [p \in Procs |-> {}]
    /\ calls = [p \in Procs |-> NoCalls]
    /\ ret = [p \in Procs |-> "unset"]
    /\ exitCode = [p \in Procs |-> -1]
    /\ snap = [p \in Procs |-> FileAbsent]

Init ==
    /\ disk \in {FileAbsent} \cup {FileOk(FreshDoc(ft[1], ft[2])) : ft \in TaskTexts}
    /\ InitProcs

-----------------------------------------------------------------------------
(* Process start: argparse and the constructor up to load_config *)

Start(p, k, a) ==
    /\ pc[p] \in {"idle", "done"}
    /\ clock < MaxRuns
    /\ clock' = clock + 1
    /\ kind' = [kind EXCEPT ![p] = k]
    /\ args' = [args EXCEPT ![p] = a]
    /\ pc' = [pc EXCEPT ![p] = "load"]
    /\ config' = [config EXCEPT ![p] = EmptyDict]
    /\ clients' = [clients EXCEPT ![p] = EmptyDict]
    /\ required' = [required EXCEPT ![p] = <<>>]
    /\ attempts' = [attempts EXCEPT ![p] = EmptyDict]
    /\ results' = [results EXCEPT ![p] = EmptyDict]
    /\ todo' = [todo EXCEPT ![p] = {}]
    /\ calls' = [calls EXCEPT ![p] = NoCalls]
    /\ ret' = [ret EXCEPT ![p] = "unset"]
    /\ exitCode' = [exitCode EXCEPT ![p] = -1]
    /\ snap' = [snap EXCEPT ![p] = FileAbsent]
    /\ out' = [out EXCEPT ![p] = EmptyDict]
    /\ UNCHANGED <<disk, tempFiles>>

\* how McpClientManager is driven: by main without or with --health-check, or by
\* a caller of the class that issues health_check and cleanup itself
ManagerModes == {"main", "main_hc", "api"}

StartInit(p) == \E m \in ManagerModes : Start(p, "init", [mode |-> m])
StartCleanup(p) == \E s \in FinalStatuses : Start(p, "cleanup", [status |-> s])

\* the processes other than p that hold the file open for writing
OtherWriters(p) == {q \in Procs \ {p} : pc[q] = "save_write"}

\* history of a load: what was read, and whether a rewrite was in progress
Loaded(p) ==
    /\ snap' = [snap EXCEPT ![p] = disk]
    /\ calls' = [calls EXCEPT ![p].racedLoad = (OtherWriters(p) # {})]

Exit(p, code) ==
    /\ pc' = [pc EXCEPT ![p] = "done"]
    /\ exitCode' = [exitCode EXCEPT ![p] = code]

-----------------------------------------------------------------------------
(* init-clients.py: McpClientManager *)

\* mutant: a missing or malformed file gives the empty configuration, as in the
\* other two scripts
Manager_load_config_lenient(p) ==
    /\ kind[p] = "init" /\ pc[p] = "load"
    /\ Loaded(p)
    /\ config' = [config EXCEPT ![p] = IF disk.state = "ok" THEN disk.doc ELSE EmptyDict]
    /\ pc' = [pc EXCEPT ![p] = "detect"]
    /\ UNCHANGED <<disk, out, tempFiles, clock, kind,
                   args, clients, required, attempts, results, todo, ret, exitCode>>

\* load_config: a missing or malformed file ends the process with status 1
Manager_load_config(p) ==
    /\ kind[p] = "init" /\ pc[p] = "load"
    /\ Loaded(p)
    /\ IF disk.state = "ok"
       THEN /\ config' = [config EXCEPT ![p] = disk.doc]
            /\ pc' = [pc EXCEPT ![p] = "detect"]
            /\ UNCHANGED exitCode
       ELSE /\ Exit(p, 1)
            /\ UNCHANGED config
    /\ UNCHANGED <<disk, out, tempFiles, clock, kind,
                   args, clients, required, attempts, results, todo, ret>>

\* initialize_all_clients up to the gather: detection, the early return, the tasks
initialize_all_clients_begin(p) ==
    /\ kind[p] = "init" /\ pc[p] = "detect"
    /\ LET required_clients == detect_required_clients(config[p])
       IN /\ required' = [required EXCEPT ![p] = required_clients]
          /\ IF required_clients = <<>>
             THEN /\ pc' = [pc EXCEPT ![p] = "ready"]
                  /\ UNCHANGED attempts
             ELSE /\ pc' = [pc EXCEPT ![p] = "gather"]
                  /\ attempts' = [attempts EXCEPT ![p] =
                                    [n \in NamesOf(required_clients) |-> "pending"]]
    /\ UNCHANGED <<disk, out, tempFiles, clock, kind,
                   args, config, clients, results, todo, calls, ret, exitCode, snap>>

\* where initialize_client can raise: before its first suspension (the import, the
\* transport constructor, the client constructor), and in the connect handshake
SyncStages == {"construct"}
ConnectStage == "connect"

\* the entry the except branch appends; str(e) is one message whatever raised
ErrorEntry(name, stage, now) ==
    [timestamp |-> now, client |-> name, error |-> "exception", type |-> "connection_failed"]

\* mutant: the entry replaces the list instead of being appended to it
RecordFailure_overwrite(cfg, name, stage, now) ==
    Put(cfg, "errors", <<ErrorEntry(name, stage, now)>>)

\* the except branch of initialize_client: log the error to the task config
RecordFailure(cfg, name, stage, now) ==
    Put(cfg, "errors", Append(Get(cfg, "errors", <<>>), ErrorEntry(name, stage, now)))

\* the success branch of initialize_client: store the client reference
StoreClient(cl, req, now) ==
    Put(cl, req.name, [client |-> req.name, transport |-> req.name, config |-> req,
                       connected_at |-> now, status |-> "connected"])

RequirementNamed(reqs, n) == reqs[CHOOSE i \in 1..Len(reqs) : reqs[i].name = n]

\* mutant: the exception of one task cancels the unfinished sibling tasks
Failed_cancelSiblings(att, n) ==
    [m \in DOMAIN att |->
        IF m = n THEN "failed"
        ELSE IF att[m] \in {"pending", "connecting"} THEN "cancelled" ELSE att[m]]

\* the tasks of the gather once the attempt on n has raised: the exception is caught
\* in initialize_client (and gather runs with return_exceptions=True), so only the
\* task of n ends
Failed(att, n) == [att EXCEPT ![n] = "failed"]


\* the task the event loop runs next for the first time: tasks start in list order
NextPending(p) ==
    LET reqs == required[p]
        i == CHOOSE i \in 1..Len(reqs) :
                /\ attempts[p][reqs[i].name] = "pending"
                /\ \A j \in 1..(i - 1) : attempts[p][reqs[j].name] # "pending"
    IN reqs[i].name

\* initialize_client from its start to `await client.connect`: the import, the
\* transport or the client constructor may raise, else the task suspends
initialize_client_start(p) ==
    /\ kind[p] = "init" /\ pc[p] = "gather"
    /\ \E m \in DOMAIN attempts[p] : attempts[p][m] = "pending"
    /\ LET n == NextPending(p)
       IN \/ /\ attempts' = [attempts EXCEPT ![p][n] = "connecting"]
             /\ UNCHANGED <<config, results>>
          \/ \E stage \in SyncStages :
             /\ attempts' = [attempts EXCEPT ![p] = Failed(@, n)]
             /\ config' = [config EXCEPT ![p] = RecordFailure(@, n, stage, clock)]
             /\ results' = [results EXCEPT ![p] = Put(@, n, FALSE)]
    /\ UNCHANGED <<disk, out, tempFiles, clock, kind,
                   pc, args, clients, required, todo, calls, ret, exitCode, snap>>

\* the connect handshake of a suspended task returns: the client is stored
initialize_client_connected(p, n) ==
    /\ kind[p] = "init" /\ pc[p] = "gather"
    /\ n \in DOMAIN attempts[p] /\ attempts[p][n] = "connecting"
    /\ attempts' = [attempts EXCEPT ![p][n] = "connected"]
    /\ clients' = [clients EXCEPT ![p] =
                      StoreClient(@, RequirementNamed(required[p], n), clock)]
    /\ results' = [results EXCEPT ![p] = Put(@, n, TRUE)]
    /\ UNCHANGED <<disk, out, tempFiles, clock, kind, pc, args, config, required, todo,
                   calls, ret, exitCode, snap>>

\* the connect handshake of a suspended task raises: the except branch
initialize_client_except(p, n) ==
    /\ kind[p] = "init" /\ pc[p] = "gather"
    /\ n \in DOMAIN attempts[p] /\ attempts[p][n] = "connecting"
    /\ attempts' = [attempts EXCEPT ![p] = Failed(@, n)]
    /\ config' = [config EXCEPT ![p] = RecordFailure(@, n, ConnectStage, clock)]
    /\ results' = [results EXCEPT ![p] = Put(@, n, FALSE)]
    /\ UNCHANGED <<disk, out, tempFiles, clock, kind, pc, args, clients, required, todo,
                   calls, ret, exitCode, snap>>

\* client_configs of initialize_all_clients: the records without the live objects
ClientConfigs(cl) ==
    [n \in DOMAIN cl |-> [config |-> cl[n]["config"],
                          connected_at |-> cl[n]["connected_at"],
                          status |-> cl[n]["status"]]]

\* mutant: activeConnections lists every required client
UpdatedConfig_allRequired(cfg, cl) ==
    Put(Put(cfg, "mcpClients", ClientConfigs(cl)), "activeConnections",
        NamesOf(detect_required_clients(cfg)))

\* mutant: the names of the loaded document stay in activeConnections
UpdatedConfig_staleActive(cfg, cl) ==
    Put(Put(cfg, "mcpClients", ClientConfigs(cl)), "activeConnections",
        Get(cfg, "activeConnections", {}) \cup DOMAIN cl)

\* self.config after the gather: mcpClients and activeConnections
UpdatedConfig(cfg, cl) ==
    Put(Put(cfg, "mcpClients", ClientConfigs(cl)), "activeConnections", DOMAIN cl)

\* mutant: the gather returns as soon as one task has resolved
initialize_all_clients_join_firstResolved(p) ==
    /\ kind[p] = "init" /\ pc[p] = "gather"
    /\ \E n \in DOMAIN attempts[p] : attempts[p][n] \in {"connected", "failed"}
    /\ config' = [config EXCEPT ![p] = UpdatedConfig(@, clients[p])]
    /\ pc' = [pc EXCEPT ![p] = "save_open"]
    /\ UNCHANGED <<disk, out, tempFiles, clock, kind,
                   args, clients, required, attempts, results, todo, calls, ret, exitCode, snap>>

\* initialize_all_clients after the gather returned: every task has resolved
initialize_all_clients_join(p) ==
    /\ kind[p] = "init" /\ pc[p] = "gather"
    /\ \A n \in DOMAIN attempts[p] : attempts[p][n] \in {"connected", "failed"}
    /\ config' = [config EXCEPT ![p] = UpdatedConfig(@, clients[p])]
    /\ pc' = [pc EXCEPT ![p] = "save_open"]
    /\ UNCHANGED <<disk, out, tempFiles, clock, kind,
                   args, clients, required, attempts, results, todo, calls, ret, exitCode, snap>>

-----------------------------------------------------------------------------
(* save_config (both classes): open(path, 'w') truncates the file, json.dump  *)
(* then writes the document; an exception from either is logged and dropped   *)

AfterSave(p) == IF kind[p] = "init" THEN "ready" ELSE "metrics"

save_config_open(p) ==
    /\ pc[p] = "save_open"
    /\ \/ /\ disk' = FileMalformed
          /\ pc' = [pc EXCEPT ![p] = "save_write"]
          /\ calls' = [calls EXCEPT ![p].saves = @ + 1, ![p].overlap = FALSE]
       \/ /\ pc' = [pc EXCEPT ![p] = AfterSave(p)]
          /\ calls' = [calls EXCEPT ![p].saves = @ + 1, ![p].saved = "open_failed",
                                    ![p].failedWrites = @ \cup {"config"}]
          /\ UNCHANGED disk
    /\ UNCHANGED <<out, tempFiles, clock, kind, args,
                   config, clients, required, attempts, results, todo, ret, exitCode, snap>>

\* what the file holds once p has written its document: two writers that overlap
\* write over each other's bytes, and the result may not parse
Written(p) ==
    IF calls[p].overlap THEN {FileOk(config[p]), FileMalformed} ELSE {FileOk(config[p])}

save_config_write(p) ==
    /\ pc[p] = "save_write"
    /\ \/ /\ disk' \in Written(p)
          /\ calls' = [q \in Procs |->
                         IF q = p THEN [calls[q] EXCEPT !.saved = "ok"]
                         ELSE IF q \in OtherWriters(p)
                              THEN [calls[q] EXCEPT !.overlap = TRUE]
                              ELSE calls[q]]
       \/ /\ calls' = [calls EXCEPT ![p].saved = "write_failed",
                                    ![p].failedWrites = @ \cup {"config"}]
          /\ disk' = FileMalformed
    /\ pc' = [pc EXCEPT ![p] = AfterSave(p)]
    /\ UNCHANGED <<out, tempFiles, clock, kind, args,
                   config, clients, required, attempts, results, todo, ret, exitCode, snap>>

-----------------------------------------------------------------------------
(* health_check, cleanup and the end of main (init-clients.py) *)

\* mutant: the error of the probe is not recorded
MarkUnhealthy_noLastError(info) == Put(info, "status", "unhealthy")

\* the except branch of health_check
MarkUnhealthy(info) == Put(Put(info, "status", "unhealthy"), "last_error", "probe failed")

\* main calls health_check once when --health-check is given; a caller of the
\* class may call it again
MayHealthCheck(p) ==
    \/ args[p]["mode"] = "main_hc" /\ calls[p].hc = 0
    \/ args[p]["mode"] = "api" /\ calls[p].hc < MaxHealthChecks

health_check_begin(p) ==
    /\ kind[p] = "init" /\ pc[p] = "ready"
    /\ MayHealthCheck(p)
    /\ calls' = [calls EXCEPT ![p].hc = @ + 1, ![p].probed = {}, ![p].probeErrors = {}]
    /\ todo' = [todo EXCEPT ![p] = DOMAIN clients[p]]
    /\ pc' = [pc EXCEPT ![p] = IF DOMAIN clients[p] = {} THEN "ready" ELSE "health"]
    /\ UNCHANGED <<disk, out, tempFiles, clock, kind,
                   args, config, clients, required, attempts, results, ret, exitCode, snap>>

\* mutant: the record of a client whose probe raised is marked in the file as well
health_check_probe_persisting(p, n) ==
    /\ kind[p] = "init" /\ pc[p] = "health"
    /\ n \in todo[p]
    /\ \/ /\ UNCHANGED <<clients, disk>>
          /\ calls' = [calls EXCEPT ![p].probed = @ \cup {n}]
       \/ /\ clients' = [clients EXCEPT ![p][n] = MarkUnhealthy(@)]
          /\ calls' = [calls EXCEPT ![p].probed = @ \cup {n},
                                    ![p].probeErrors = @ \cup {n}]
          /\ disk' = IF disk.state = "ok" /\ n \in DOMAIN Get(disk.doc, "mcpClients", EmptyDict)
                     THEN FileOk(Put(disk.doc, "mcpClients",
                                     [disk.doc["mcpClients"] EXCEPT ![n] = MarkUnhealthy(@)]))
                     ELSE disk
    /\ todo' = [todo EXCEPT ![p] = @ \ {n}]
    /\ pc' = [pc EXCEPT ![p] = IF todo[p] = {n} THEN "ready" ELSE "health"]
    /\ UNCHANGED <<out, tempFiles, clock, kind,
                   args, config, required, attempts, results, ret, exitCode, snap>>

\* mutant: a probe that answers marks the client 'connected' again
health_check_probe_recovering(p, n) ==
    /\ kind[p] = "init" /\ pc[p] = "health"
    /\ n \in todo[p]
    /\ \/ /\ clients' = [clients EXCEPT ![p][n] = Put(@, "status", "connected")]
          /\ calls' = [calls EXCEPT ![p].probed = @ \cup {n}]
       \/ /\ clients' = [clients EXCEPT ![p][n] = MarkUnhealthy(@)]
          /\ calls' = [calls EXCEPT ![p].probed = @ \cup {n},
                                    ![p].probeErrors = @ \cup {n}]
    /\ todo' = [todo EXCEPT ![p] = @ \ {n}]
    /\ pc' = [pc EXCEPT ![p] = IF todo[p] = {n} THEN "ready" ELSE "health"]
    /\ UNCHANGED <<disk, out, tempFiles, clock, kind,
                   args, config, required, attempts, results, ret, exitCode, snap>>

\* one iteration of the loop of health_check: list_tools answers or raises
health_check_probe(p, n) ==
    /\ kind[p] = "init" /\ pc[p] = "health"
    /\ n \in todo[p]
    /\ \/ /\ UNCHANGED clients
          /\ calls' = [calls EXCEPT ![p].probed = @ \cup {n}]
       \/ /\ clients' = [clients EXCEPT ![p][n] = MarkUnhealthy(@)]
          /\ calls' = [calls EXCEPT ![p].probed = @ \cup {n},
                                    ![p].probeErrors = @ \cup {n}]
    /\ todo' = [todo EXCEPT ![p] = @ \ {n}]
    /\ pc' = [pc EXCEPT ![p] = IF todo[p] = {n} THEN "ready" ELSE "health"]
    /\ UNCHANGED <<disk, out, tempFiles, clock, kind,
                   args, config, required, attempts, results, ret, exitCode, snap>>

\* one iteration of the loop of health_check whose list_tools is never answered:
\* the call is awaited without a timeout, so the coroutine stays suspended
health_check_wait(p, n) ==
    /\ kind[p] = "init" /\ pc[p] = "health"
    /\ n \in todo[p]
    /\ pc' = [pc EXCEPT ![p] = "awaiting"]
    /\ UNCHANGED <<disk, out, tempFiles, clock, kind, args, config, clients,
                   required, attempts, results, todo, calls, ret, exitCode, snap>>

\* mutant: the first disconnect that raises ends the loop, and the exception leaves
\* cleanup before self.clients.clear()
cleanup_stopAtFirstError(p) ==
    /\ kind[p] = "init" /\ pc[p] = "ready"
    /\ args[p]["mode"] = "api"
    /\ \/ /\ calls' = [calls EXCEPT ![p].disconnects = @ \cup DOMAIN clients[p]]
          /\ clients' = [clients EXCEPT ![p] = EmptyDict]
       \/ \E n \in DOMAIN clients[p] :
             /\ calls' = [calls EXCEPT ![p].disconnects = @ \cup {n},
                                       ![p].disconnectErrors = @ \cup {n}]
             /\ UNCHANGED clients
    /\ UNCHANGED <<disk, out, tempFiles, clock, kind,
                   pc, args, config, required, attempts, results, todo, ret, exitCode, snap>>

\* McpClientManager.cleanup: disconnect every client, an exception of a disconnect
\* is logged; then self.clients.clear()
cleanup(p) ==
    /\ kind[p] = "init" /\ pc[p] = "ready"
    /\ args[p]["mode"] = "api"
    /\ \E raised \in SUBSET (DOMAIN clients[p]) :
          calls' = [calls EXCEPT ![p].disconnects = @ \cup DOMAIN clients[p],
                                 ![p].disconnectErrors = @ \cup raised]
    /\ clients' = [clients EXCEPT ![p] = EmptyDict]
    /\ UNCHANGED <<disk, out, tempFiles, clock, kind,
                   pc, args, config, required, attempts, results, todo, ret, exitCode, snap>>

\* main returns: the process ends with status 0
Manager_exit(p) ==
    /\ kind[p] = "init" /\ pc[p] = "ready"
    /\ ~(args[p]["mode"] = "main_hc" /\ calls[p].hc = 0)
    /\ Exit(p, 0)
    /\ UNCHANGED <<disk, out, tempFiles, clock, kind,
                   args, config, clients, required, attempts, results, todo, calls, ret, snap>>

-----------------------------------------------------------------------------
(* cleanup-clients.py: McpClientCleanup *)

\* load_config: a missing or malformed file gives the empty configuration
Cleanup_load_config(p) ==
    /\ kind[p] = "cleanup" /\ pc[p] = "load"
    /\ Loaded(p)
    /\ config' = [config EXCEPT ![p] = IF disk.state = "ok" THEN disk.doc ELSE EmptyDict]
    /\ pc' = [pc EXCEPT ![p] = "disconnect"]
    /\ UNCHANGED <<disk, out, tempFiles, clock, kind,
                   args, clients, required, attempts, results, todo, ret, exitCode>>

\* mutant: the status of the record is left as it was
MarkDisconnected_keepStatus(info, status, now) ==
    Put(Put(info, "disconnected_at", now), "final_task_status", status)

\* the body of the loop of disconnect_clients
MarkDisconnected(info, status, now) ==
    Put(Put(Put(info, "disconnected_at", now), "status", "disconnected"),
        "final_task_status", status)

\* mutant: the disconnect starts a new error log
Disconnected_dropErrors(cfg, status, now) ==
    LET active == Get(cfg, "activeConnections", {})
        mcp_clients == Get(cfg, "mcpClients", EmptyDict)
        marked == [n \in DOMAIN mcp_clients |->
                     IF n \in active THEN MarkDisconnected(mcp_clients[n], status, now)
                     ELSE mcp_clients[n]]
        withClients == IF "mcpClients" \in DOMAIN cfg
                       THEN Put(cfg, "mcpClients", marked) ELSE cfg
    IN Put(Put(Put(withClients, "activeConnections", {}), "disconnectedAt", now),
           "errors", <<>>)

\* self.config when disconnect_clients reaches its save_config
Disconnected(cfg, status, now) ==
    LET active == Get(cfg, "activeConnections", {})
        mcp_clients == Get(cfg, "mcpClients", EmptyDict)
        marked == [n \in DOMAIN mcp_clients |->
                     IF n \in active THEN MarkDisconnected(mcp_clients[n], status, now)
                     ELSE mcp_clients[n]]
        withClients == IF "mcpClients" \in DOMAIN cfg
                       THEN Put(cfg, "mcpClients", marked) ELSE cfg
    IN Put(Put(withClients, "activeConnections", {}), "disconnectedAt", now)

\* mutant: no early return when there is no active connection
disconnect_clients_always(p) ==
    /\ kind[p] = "cleanup" /\ pc[p] = "disconnect"
    /\ config' = [config EXCEPT ![p] = Disconnected(@, args[p]["status"], clock)]
    /\ pc' = [pc EXCEPT ![p] = "save_open"]
    /\ UNCHANGED <<disk, out, tempFiles, clock, kind,
                   args, clients, required, attempts, results, todo, calls, ret, exitCode, snap>>

\* disconnect_clients up to save_config, or its early return
disconnect_clients(p) ==
    /\ kind[p] = "cleanup" /\ pc[p] = "disconnect"
    /\ IF Get(config[p], "activeConnections", {}) = {}
       THEN /\ pc' = [pc EXCEPT ![p] = "metrics"]
            /\ UNCHANGED config
       ELSE /\ config' = [config EXCEPT ![p] = Disconnected(@, args[p]["status"], clock)]
            /\ pc' = [pc EXCEPT ![p] = "save_open"]
    /\ UNCHANGED <<disk, out, tempFiles, clock, kind,
                   args, clients, required, attempts, results, todo, calls, ret, exitCode, snap>>

\* _calculate_duration on the timestamps the model writes (all of them parse)
calculate_duration(start_time, end_time) ==
    IF start_time = None \/ end_time = None
    THEN None
    ELSE Some(end_time[1] - start_time[1])

ClientMetrics(name, info) ==
    [name |-> name,
     type |-> Get(Get(info, "config", EmptyDict), "type", "unknown"),
     status |-> Get(info, "status", "unknown"),
     connected_at |-> GetOpt(info, "connected_at"),
     disconnected_at |-> GetOpt(info, "disconnected_at"),
     duration_seconds |-> calculate_duration(GetOpt(info, "connected_at"),
                                             GetOpt(info, "disconnected_at"))]

\* mutant: a client that was connected once counts as a successful connection
Metrics_everConnected(cfg, status, now) ==
    LET mcp_clients == Get(cfg, "mcpClients", EmptyDict)
        successful == {n \in DOMAIN mcp_clients : "connected_at" \in DOMAIN mcp_clients[n]}
    IN [finalStatus |-> status,
        startedAt |-> GetOpt(cfg, "startedAt"),
        completedAt |-> now,
        clientConnections |-> [n \in DOMAIN mcp_clients |-> ClientMetrics(n, mcp_clients[n])],
        totalClients |-> Cardinality(DOMAIN mcp_clients),
        successfulConnections |-> Cardinality(successful),
        failedConnections |-> Cardinality(DOMAIN mcp_clients \ successful),
        errors |-> Get(cfg, "errors", <<>>)]

\* the metrics dict collect_execution_metrics builds
Metrics(cfg, status, now) ==
    LET mcp_clients == Get(cfg, "mcpClients", EmptyDict)
        successful == {n \in DOMAIN mcp_clients :
                          Get(mcp_clients[n], "status", "unknown") = "connected"}
    IN [finalStatus |-> status,
        startedAt |-> GetOpt(cfg, "startedAt"),
        completedAt |-> now,
        clientConnections |-> [n \in DOMAIN mcp_clients |-> ClientMetrics(n, mcp_clients[n])],
        totalClients |-> Cardinality(DOMAIN mcp_clients),
        successfulConnections |-> Cardinality(successful),
        failedConnections |-> Cardinality(DOMAIN mcp_clients \ successful),
        errors |-> Get(cfg, "errors", <<>>)]

\* mutant: the metrics are computed from the records as they were loaded, before
\* the disconnect step
collect_execution_metrics_beforeDisconnect(p) ==
    /\ kind[p] = "cleanup" /\ pc[p] = "metrics"
    /\ LET metrics == Metrics(snap[p].doc, args[p]["status"], clock)
       IN \/ /\ out' = [out EXCEPT ![p] = Put(@, "execution-metrics.json", metrics)]
             /\ calls' = [calls EXCEPT ![p].metrics = Some(metrics)]
          \/ /\ UNCHANGED out
             /\ calls' = [calls EXCEPT ![p].metrics = Some(metrics),
                                       ![p].failedWrites = @ \cup {"metrics"}]
    /\ pc' = [pc EXCEPT ![p] = "summary"]
    /\ UNCHANGED <<disk, tempFiles, clock, kind, args, config,
                   clients, required, attempts, results, todo, ret, exitCode, snap>>

\* collect_execution_metrics: the write of execution-metrics.json may fail, which
\* is logged; the metrics are returned either way
collect_execution_metrics(p) ==
    /\ kind[p] = "cleanup" /\ pc[p] = "metrics"
    /\ LET metrics == Metrics(config[p], args[p]["status"], clock)
       IN \/ /\ out' = [out EXCEPT ![p] = Put(@, "execution-metrics.json", metrics)]
             /\ calls' = [calls EXCEPT ![p].metrics = Some(metrics)]
          \/ /\ UNCHANGED out
             /\ calls' = [calls EXCEPT ![p].metrics = Some(metrics),
                                       ![p].failedWrites = @ \cup {"metrics"}]
    /\ pc' = [pc EXCEPT ![p] = "summary"]
    /\ UNCHANGED <<disk, tempFiles, clock, kind, args, config,
                   clients, required, attempts, results, todo, ret, exitCode, snap>>

\* the summary dict generate_cleanup_summary builds
Summary(cfg, status, now) ==
    [cleanupTimestamp |-> now,
     finalStatus |-> status,
     mcpClientsDisconnected |-> Cardinality(DOMAIN Get(cfg, "mcpClients", EmptyDict)),
     errorsEncountered |-> Len(Get(cfg, "errors", <<>>)),
     cleanupSuccess |-> TRUE]

\* mutant: cleanupSuccess is cleared by any write of the run that failed
generate_cleanup_summary_anyFailure(p) ==
    /\ kind[p] = "cleanup" /\ pc[p] = "summary"
    /\ LET summary == [Summary(config[p], args[p]["status"], clock)
                          EXCEPT !.cleanupSuccess = (calls[p].failedWrites = {})]
       IN \/ /\ out' = [out EXCEPT ![p] = Put(@, "cleanup-summary.json", summary)]
             /\ calls' = [calls EXCEPT ![p].summary = Some(summary)]
          \/ /\ UNCHANGED out
             /\ calls' = [calls EXCEPT
                            ![p].summary = Some([summary EXCEPT !.cleanupSuccess = FALSE]),
                            ![p].failedWrites = @ \cup {"summary"}]
    /\ pc' = [pc EXCEPT ![p] = "temp"]
    /\ UNCHANGED <<disk, tempFiles, clock, kind, args, config,
                   clients, required, attempts, results, todo, ret, exitCode, snap>>

\* generate_cleanup_summary: a failed write of cleanup-summary.json clears
\* cleanupSuccess in the returned summary
generate_cleanup_summary(p) ==
    /\ kind[p] = "cleanup" /\ pc[p] = "summary"
    /\ LET summary == Summary(config[p], args[p]["status"], clock)
       IN \/ /\ out' = [out EXCEPT ![p] = Put(@, "cleanup-summary.json", summary)]
             /\ calls' = [calls EXCEPT ![p].summary = Some(summary)]
          \/ /\ UNCHANGED out
             /\ calls' = [calls EXCEPT
                            ![p].summary = Some([summary EXCEPT !.cleanupSuccess = FALSE]),
                            ![p].failedWrites = @ \cup {"summary"}]
    /\ pc' = [pc EXCEPT ![p] = "temp"]
    /\ UNCHANGED <<disk, tempFiles, clock, kind, args, config,
                   clients, required, attempts, results, todo, ret, exitCode, snap>>

\* cleanup_temporary_files, after which perform_cleanup returns True: every file
\* matching *.tmp, *.log, *.pid, temp_* is unlinked, a failed unlink is logged
cleanup_temporary_files(p) ==
    /\ kind[p] = "cleanup" /\ pc[p] = "temp"
    /\ \E kept \in SUBSET tempFiles :
          /\ tempFiles' = kept
          /\ calls' = [calls EXCEPT ![p].unlinkErrors = kept]
    /\ ret' = [ret EXCEPT ![p] = "True"]
    /\ pc' = [pc EXCEPT ![p] = "return"]
    /\ UNCHANGED <<disk, out, clock, kind, args, config,
                   clients, required, attempts, results, todo, exitCode, snap>>

\* main of cleanup-clients.py: sys.exit(0) if perform_cleanup returned True, else 1
Cleanup_exit(p) ==
    /\ kind[p] = "cleanup" /\ pc[p] = "return"
    /\ Exit(p, IF ret[p] = "True" THEN 0 ELSE 1)
    /\ UNCHANGED <<disk, out, tempFiles, clock, kind,
                   args, config, clients, required, attempts, results, todo, calls, ret, snap>>

-----------------------------------------------------------------------------
(* diagnose-errors.py: McpErrorDiagnostic *)

connection_keywords == << <<"c","o","n","n","e","c","t","i","o","n">>, <<"c","o","n","n","e","c","t">>, <<"t","i","m","e","o","u","t">>, <<"u","n","r","e","a","c","h","a","b","l","e">> >>
permission_keywords == << <<"p","e","r","m","i","s","s","i","o","n">>, <<"a","c","c","e","s","s">>, <<"d","e","n","i","e","d">>, <<"u","n","a","u","t","h","o","r","i","z","e","d">> >>
not_found_keywords == << <<"n","o","t"," ","f","o","u","n","d">>, <<"4","0","4">>, <<"m","i","s","s","i","n","g">> >>
format_keywords == << <<"s","y","n","t","a","x">>, <<"j","s","o","n">>, <<"p","a","r","s","e">>, <<"f","o","r","m","a","t">> >>
resource_keywords == << <<"m","e","m","o","r","y">>, <<"l","i","m","i","t">>, <<"r","e","s","o","u","r","c","e">> >>
security_keywords == << <<"s","s","l">>, <<"t","l","s">>, <<"c","e","r","t","i","f","i","c","a","t","e">> >>

AnyIn(keywords, text) == \E k \in 1..Len(keywords) : Contains(text, keywords[k])

\* mutant: the permission bucket is checked before the connection bucket
categorize_error_permissionFirst(error) ==
    LET error_lower == lower(error)
    IN IF AnyIn(permission_keywords, error_lower) THEN "permission_error"
       ELSE IF AnyIn(connection_keywords, error_lower) THEN "connection_error"
       ELSE IF AnyIn(not_found_keywords, error_lower) THEN "resource_not_found"
       ELSE IF AnyIn(format_keywords, error_lower) THEN "format_error"
       ELSE IF AnyIn(resource_keywords, error_lower) THEN "resource_exhaustion"
       ELSE IF AnyIn(security_keywords, error_lower) THEN "security_error"
       ELSE "unknown_error"

\* _categorize_error: the if/elif chain
categorize_error(error) ==
    LET error_lower == lower(error)
    IN IF AnyIn(connection_keywords, error_lower) THEN "connection_error"
       ELSE IF AnyIn(permission_keywords, error_lower) THEN "permission_error"
       ELSE IF AnyIn(not_found_keywords, error_lower) THEN "resource_not_found"
       ELSE IF AnyIn(format_keywords, error_lower) THEN "format_error"
       ELSE IF AnyIn(resource_keywords, error_lower) THEN "resource_exhaustion"
       ELSE IF AnyIn(security_keywords, error_lower) THEN "security_error"
       ELSE "unknown_error"

\* mutant: without the fallback to every configured client
identify_affected_clients_noFallback(cfg) ==
    LET mcp_clients == Get(cfg, "mcpClients", EmptyDict)
    IN {n \in DOMAIN mcp_clients :
           \/ Get(mcp_clients[n], "status", "unknown") = "unhealthy"
           \/ Get(mcp_clients[n], "status", "unknown") = "failed"}

\* _identify_affected_clients, as the set of the names of the list it returns
identify_affected_clients(cfg) ==
    LET mcp_clients == Get(cfg, "mcpClients", EmptyDict)
        affected == {n \in DOMAIN mcp_clients :
                        \/ Get(mcp_clients[n], "status", "unknown") = "unhealthy"
                        \/ Get(mcp_clients[n], "status", "unknown") = "failed"}
    IN IF affected = {} /\ DOMAIN mcp_clients # {} THEN DOMAIN mcp_clients ELSE affected

\* _check_mcp_servers
check_mcp_servers(cfg) ==
    LET mcp_clients == Get(cfg, "mcpClients", EmptyDict)
    IN [n \in DOMAIN mcp_clients |->
          [command |-> Get(Get(mcp_clients[n], "config", EmptyDict), "command", "unknown"),
           status |-> Get(mcp_clients[n], "status", "unknown")]]

\* root_causes of _identify_root_cause
root_causes ==
    "connection_error" :> "MCP server may be down, network issues, or incorrect server configuration"
    @@ "permission_error" :> "Insufficient permissions or invalid credentials for MCP server access"
    @@ "resource_not_found" :> "MCP server endpoint or required resources are missing"
    @@ "format_error" :> "Invalid configuration format or corrupted data structures"
    @@ "resource_exhaustion" :> "System resources (memory, CPU, file handles) are exhausted"
    @@ "security_error" :> "SSL/TLS configuration issues or certificate problems"
    @@ "unknown_error" :> "Error pattern not recognized, requires manual investigation"

\* _identify_root_cause
identify_root_cause(error_category) ==
    Get(root_causes, error_category, "Unknown root cause")

\* recovery_actions of _get_recovery_actions
recovery_actions ==
    "connection_error" :>
        << "Check MCP server status and availability",
           "Verify network connectivity and firewall settings",
           "Restart MCP servers if necessary",
           "Implement retry mechanism with exponential backoff",
           "Check server logs for additional error details" >>
    @@ "permission_error" :>
        << "Verify MCP server credentials and API keys",
           "Check file system permissions for MCP server access",
           "Ensure proper environment variables are set",
           "Review server access control configurations",
           "Check user account permissions and roles" >>
    @@ "resource_not_found" :>
        << "Verify MCP server endpoints and URLs",
           "Check if required MCP server tools are installed",
           "Ensure MCP server configuration files exist",
           "Validate server capability declarations",
           "Check server registration and discovery" >>
    @@ "format_error" :>
        << "Validate JSON configuration file syntax",
           "Check for proper data type conversions",
           "Verify MCP protocol message formats",
           "Review encoding and character set issues",
           "Regenerate configuration files if corrupted" >>
    @@ "resource_exhaustion" :>
        << "Monitor system resource usage (CPU, memory, disk)",
           "Increase system resource limits if possible",
           "Implement connection pooling and cleanup",
           "Optimize MCP client initialization timing",
           "Add resource monitoring and alerting" >>
    @@ "security_error" :>
        << "Check SSL/TLS certificate validity and expiration",
           "Verify certificate chain and trust store",
           "Update security protocols and cipher suites",
           "Review firewall and security group settings",
           "Check for certificate authority issues" >>
    @@ "unknown_error" :>
        << "Enable detailed debug logging for MCP clients",
           "Collect comprehensive error logs and stack traces",
           "Review recent system and configuration changes",
           "Test MCP connections in isolation",
           "Consult MCP server documentation and community" >>

\* mutant: 'unknown_error' has no list of its own and gets the default
get_recovery_actions_default(error_category) ==
    IF error_category = "unknown_error" THEN <<"Manual investigation required">>
    ELSE Get(recovery_actions, error_category, <<"Manual investigation required">>)

\* _get_recovery_actions: the list of the category, else the default
get_recovery_actions(error_category) ==
    Get(recovery_actions, error_category, <<"Manual investigation required">>)

\* analyze_error; the probes of the host (environment, filesystem, network) read
\* nothing of the model and are left out of the report
analyze_error(cfg, error) ==
    [originalError |-> error,
     errorCategory |-> categorize_error(error),
     rootCause |-> identify_root_cause(categorize_error(error)),
     affectedClients |-> identify_affected_clients(cfg),
     recommendedActions |-> get_recovery_actions(categorize_error(error)),
     mcpServerStatus |-> check_mcp_servers(cfg)]

\* the error texts diagnosis is run on
ErrorTexts == { <<"C","o","n","n","e","c","t","i","o","n"," ","t","i","m","e","o","u","t"," ","t","o"," ","s","e","r","v","e","r">>,
                <<"b","o","o","m">> }

\* the error texts the categorization is checked on: one per bucket, texts that
\* match two buckets, and a text that matches none
DiagnosedTexts ==
    { <<"C","o","n","n","e","c","t","i","o","n"," ","t","i","m","e","o","u","t"," ","t","o"," ","s","e","r","v","e","r">>,
      <<"b","o","o","m">>,
      <<"A","c","c","e","s","s"," ","d","e","n","i","e","d">>,
      <<"4","0","4"," ","N","o","t"," ","F","o","u","n","d">>,
      <<"J","S","O","N"," ","p","a","r","s","e">>,
      <<"m","e","m","o","r","y"," ","l","i","m","i","t">>,
      <<"S","S","L"," ","c","e","r","t","i","f","i","c","a","t","e">>,
      <<"c","o","n","n","e","c","t"," ","d","e","n","i","e","d">>,
      <<"m","i","s","s","i","n","g"," ","j","s","o","n">>,
      <<"T","L","S"," ","l","i","m","i","t">> }

\* the statuses a client record of a diagnosed document may hold
DiagnosedStatuses == {"connected", "disconnected", "unhealthy", "failed"}

\* the client maps of the documents diagnosis is checked on: every map from a
\* set of these clients to the statuses
DiagnosedClients == {"database", "api"}

ClientRecord(n, status) ==
    [config |-> Requirement(n, "python"), connected_at |-> 0, status |-> status]

DiagnosedDocs ==
    {[feature |-> <<>>, taskTitle |-> <<>>,
      mcpClients |-> [n \in DOMAIN m |-> ClientRecord(n, m[n])]] :
        m \in UNION {[S -> DiagnosedStatuses] : S \in SUBSET DiagnosedClients}}

StartDiagnose(p) == \E e \in ErrorTexts : Start(p, "diagnose", [error |-> e])

Diagnostic_load_config(p) ==
    /\ kind[p] = "diagnose" /\ pc[p] = "load"
    /\ Loaded(p)
    /\ config' = [config EXCEPT ![p] = IF disk.state = "ok" THEN disk.doc ELSE EmptyDict]
    /\ pc' = [pc EXCEPT ![p] = "report"]
    /\ UNCHANGED <<disk, out, tempFiles, clock, kind,
                   args, clients, required, attempts, results, todo, ret, exitCode>>

\* generate_diagnostic_report: the report is written and returned, or the write
\* raises and None is returned
generate_diagnostic_report(p) ==
    /\ kind[p] = "diagnose" /\ pc[p] = "report"
    /\ \/ /\ out' = [out EXCEPT ![p] = Put(@, "diagnostic-report.json",
                                            analyze_error(config[p], args[p]["error"]))]
          /\ ret' = [ret EXCEPT ![p] = "report"]
          /\ UNCHANGED calls
       \/ /\ UNCHANGED out
          /\ ret' = [ret EXCEPT ![p] = "None"]
          /\ calls' = [calls EXCEPT ![p].failedWrites = @ \cup {"report"}]
    /\ pc' = [pc EXCEPT ![p] = "return"]
    /\ UNCHANGED <<disk, tempFiles, clock, kind, args, config,
                   clients, required, attempts, results, todo, exitCode, snap>>

\* main of diagnose-errors.py: sys.exit(1) when no report was returned
Diagnostic_exit(p) ==
    /\ kind[p] = "diagnose" /\ pc[p] = "return"
    /\ Exit(p, IF ret[p] = "report" THEN 0 ELSE 1)
    /\ UNCHANGED <<disk, out, tempFiles, clock, kind,
                   args, config, clients, required, attempts, results, todo, calls, ret, snap>>

-----------------------------------------------------------------------------
(* Specifications *)

Step(p) ==
    \/ Manager_load_config(p)
    \/ initialize_all_clients_begin(p)
    \/ initialize_client_start(p)
    \/ \E n \in ClientNames : initialize_client_connected(p, n)
    \/ \E n \in ClientNames : initialize_client_except(p, n)
    \/ initialize_all_clients_join(p)
    \/ save_config_open(p)
    \/ save_config_write(p)
    \/ health_check_begin(p)
    \/ \E n \in ClientNames : health_check_probe(p, n)
    \/ \E n \in ClientNames : health_check_wait(p, n)
    \/ cleanup(p)
    \/ Manager_exit(p)
    \/ Cleanup_load_config(p)
    \/ disconnect_clients(p)
    \/ collect_execution_metrics(p)
    \/ generate_cleanup_summary(p)
    \/ cleanup_temporary_files(p)
    \/ Cleanup_exit(p)
    \/ Diagnostic_load_config(p)
    \/ generate_diagnostic_report(p)
    \/ Diagnostic_exit(p)

\* no process is running
AllIdle == \A q \in Procs : pc[q] \in {"idle", "done"}

\* one process at a time: a script is started when no other runs
Next ==
    \E p \in SeqProcs :
        \/ AllIdle /\ StartInit(p)
        \/ AllIdle /\ StartCleanup(p)
        \/ AllIdle /\ StartDiagnose(p)
        \/ Step(p)

Spec == Init /\ [][Next]_vars

\* the document of the concurrent specification: a task that requires one client
InitConc ==
    /\ Init
    /\ disk.state = "ok" /\ Len(disk.doc["taskTitle"]) > 0

\* main of init-clients.py without --health-check
StartMain(p) == Start(p, "init", [mode |-> "main"])

\* the steps that read or write the shared document, and the ends of the scripts
StepConc(p) ==
    \/ Manager_load_config(p)
    \/ initialize_all_clients_begin(p)
    \/ initialize_client_start(p)
    \/ \E n \in ClientNames : initialize_client_connected(p, n)
    \/ \E n \in ClientNames : initialize_client_except(p, n)
    \/ initialize_all_clients_join(p)
    \/ save_config_open(p)
    \/ save_config_write(p)
    \/ Manager_exit(p)
    \/ Cleanup_load_config(p)
    \/ disconnect_clients(p)
    \/ collect_execution_metrics(p)
    \/ generate_cleanup_summary(p)
    \/ cleanup_temporary_files(p)
    \/ Cleanup_exit(p)
    \/ Diagnostic_load_config(p)
    \/ generate_diagnostic_report(p)
    \/ Diagnostic_exit(p)

\* scripts of the same task run at the same time: initialization as process 1,
\* cleanup or diagnosis as process 2
NextConc ==
    \/ StartMain(1)
    \/ StartCleanup(2)
    \/ StartDiagnose(2)
    \/ \E p \in Procs : StepConc(p)

SpecConc == InitConc /\ [][NextConc]_vars

\* the (feature, taskTitle) texts detection is checked on: no keyword, a keyword in
\* upper case, two buckets, two keywords of one bucket, one keyword in both texts,
\* all four buckets
DetectedTexts ==
    { << <<>>,
         <<>> >>,
      << <<>>,
         <<"A","P","I">> >>,
      << <<"D","a","t","a"," ","e","x","p","o","r","t">>,
         <<>> >>,
      << <<"G","i","t","H","u","b"," ","b","r","a","n","c","h">>,
         <<>> >>,
      << <<"U","p","l","o","a","d"," ","f","i","l","e">>,
         <<"f","i","l","e"," ","u","p","l","o","a","d">> >>,
      << <<"R","E","S","T"," ","e","n","d","p","o","i","n","t">>,
         <<"Q","u","e","r","y"," ","G","i","t","H","u","b"," ","f","i","l","e","s">> >>,
      << <<"F","i","x"," ","t","y","p","o">>,
         <<"R","e","a","d","m","e">> >> }

\* initialization alone, run once by main, over the texts detection is checked on
InitDetect ==
    /\ disk \in {FileOk(FreshDoc(ft[1], ft[2])) : ft \in DetectedTexts}
    /\ InitProcs

\* the steps of main of init-clients.py without --health-check
InitSteps(p) ==
    \/ Manager_load_config(p)
    \/ initialize_all_clients_begin(p)
    \/ initialize_client_start(p)
    \/ \E n \in ClientNames : initialize_client_connected(p, n)
    \/ \E n \in ClientNames : initialize_client_except(p, n)
    \/ initialize_all_clients_join(p)
    \/ save_config_open(p)
    \/ save_config_write(p)
    \/ Manager_exit(p)

NextInit ==
    \E p \in SeqProcs :
        \/ clock = 0 /\ StartMain(p)
        \/ InitSteps(p)

SpecInit == InitDetect /\ [][NextInit]_vars

\* the event loop runs a task that is ready, and every connect handshake that was
\* started returns or raises
FairSpecInit == SpecInit /\ \A p \in SeqProcs : WF_vars(InitSteps(p))

\* diagnosis alone, over the documents and the error texts it is checked on
InitDiag ==
    /\ disk \in {FileOk(d) : d \in DiagnosedDocs}
    /\ InitProcs

StartDiagnosis(p) == \E e \in DiagnosedTexts : Start(p, "diagnose", [error |-> e])

NextDiag ==
    \E p \in SeqProcs :
        \/ AllIdle /\ StartDiagnosis(p)
        \/ Diagnostic_load_config(p)
        \/ generate_diagnostic_report(p)
        \/ Diagnostic_exit(p)

SpecDiag == InitDiag /\ [][NextDiag]_vars

-----------------------------------------------------------------------------
(* Properties *)

mcpClientsOf(doc) == Get(doc, "mcpClients", EmptyDict)
activeConnectionsOf(doc) == Get(doc, "activeConnections", {})
errorsOf(doc) == Get(doc, "errors", <<>>)

\* initialize_all_clients of p has returned after a gather over N >= 1 requirements
InitRan(p) ==
    /\ kind[p] = "init"
    /\ required[p] # <<>>
    /\ pc[p] \in {"ready", "health", "done"}

Succeeded(p) == {n \in DOMAIN attempts[p] : attempts[p][n] = "connected"}
FailedAttempts(p) == {n \in DOMAIN attempts[p] : attempts[p][n] = "failed"}

\* the save_config of p wrote its document
Persisted(p) == calls[p].saved = "ok"

\* C1: after initialize_all_clients over N >= 1 requirements, the persisted
\* mcpClients has one record per requirement: status 'connected' for each attempt
\* that succeeded and status 'failed' for each attempt that failed.
C1_OneRecordPerRequirement ==
    \A p \in Procs :
        (InitRan(p) /\ Persisted(p)) =>
            /\ disk.state = "ok"
            /\ DOMAIN mcpClientsOf(disk.doc) = DOMAIN attempts[p]
            /\ \A n \in Succeeded(p) : mcpClientsOf(disk.doc)[n]["status"] = "connected"
            /\ \A n \in FailedAttempts(p) : mcpClientsOf(disk.doc)[n]["status"] = "failed"

\* C2: after initialize_all_clients over N >= 1 requirements of which M failed,
\* the activeConnections that save_config wrote is exactly the set of the names of
\* the clients whose attempt succeeded: N - M names, none of a failed client.
C2_ActiveConnectionsAreTheConnected ==
    \A p \in Procs :
        (InitRan(p) /\ Persisted(p)) =>
            /\ disk.state = "ok"
            /\ activeConnectionsOf(disk.doc) = Succeeded(p)
            /\ Cardinality(activeConnectionsOf(disk.doc))
                 = Len(required[p]) - Cardinality(FailedAttempts(p))
            /\ activeConnectionsOf(disk.doc) \cap FailedAttempts(p) = {}
            /\ \A n \in activeConnectionsOf(disk.doc) :
                  mcpClientsOf(disk.doc)[n]["status"] = "connected"

\* a batch of two in which one attempt failed and one succeeded, saved
C2_Witness ==
    \E p \in Procs :
        /\ InitRan(p) /\ Persisted(p)
        /\ Len(required[p]) = 2
        /\ Cardinality(FailedAttempts(p)) = 1
        /\ Cardinality(activeConnectionsOf(disk.doc)) = 1

\* the entries initialize_all_clients of p has appended to the errors it loaded
NewErrors(p) ==
    SubSeq(errorsOf(config[p]), Len(errorsOf(snap[p].doc)) + 1, Len(errorsOf(config[p])))

EntriesOf(p, n) ==
    {i \in 1..Len(NewErrors(p)) :
        NewErrors(p)[i]["client"] = n /\ NewErrors(p)[i]["type"] = "connection_failed"}

\* C3: every attempt that has failed in initialize_all_clients has appended
\* exactly one entry of type 'connection_failed' with its client name to errors,
\* whether it raised before or in the connect handshake; an attempt that has not
\* failed has appended none; the entries loaded stay in front; and the errors
\* that save_config wrote are these, so M failed attempts add M entries.
C3_OneErrorEntryPerFailure ==
    \A p \in Procs :
        (kind[p] = "init" /\ snap[p].state = "ok" /\ pc[p] # "load") =>
            /\ Len(errorsOf(config[p])) >= Len(errorsOf(snap[p].doc))
            /\ SubSeq(errorsOf(config[p]), 1, Len(errorsOf(snap[p].doc)))
                 = errorsOf(snap[p].doc)
            /\ \A n \in DOMAIN attempts[p] :
                  Cardinality(EntriesOf(p, n)) = IF attempts[p][n] = "failed" THEN 1 ELSE 0
            /\ \A i \in 1..Len(NewErrors(p)) :
                  /\ NewErrors(p)[i]["type"] = "connection_failed"
                  /\ NewErrors(p)[i]["client"] \in FailedAttempts(p)
            /\ Len(NewErrors(p)) = Cardinality(FailedAttempts(p))
            /\ (InitRan(p) /\ Persisted(p)) =>
                  /\ disk.state = "ok"
                  /\ errorsOf(disk.doc) = errorsOf(config[p])

\* a saved batch in which both attempts failed, one before its first suspension
\* and one in the handshake, on a document that already held an error entry
C3_Witness ==
    \E p \in Procs :
        /\ InitRan(p) /\ Persisted(p)
        /\ Cardinality(FailedAttempts(p)) = 2
        /\ Len(errorsOf(snap[p].doc)) >= 1
        /\ Len(errorsOf(disk.doc)) = Len(errorsOf(snap[p].doc)) + 2

\* every task of the gather of p is pending, suspended or ended by itself; while
\* a task is suspended both of its outcomes stay possible, whatever its siblings
\* did; after the gather every task has ended as success or captured failure; and
\* a process that loaded its document ends with status 0
C4_Outcomes ==
    \A p \in Procs :
        kind[p] = "init" =>
            /\ \A n \in DOMAIN attempts[p] :
                  /\ attempts[p][n] \in {"pending", "connecting", "connected", "failed"}
                  /\ (pc[p] = "gather" /\ attempts[p][n] = "connecting") =>
                        /\ ENABLED initialize_client_connected(p, n)
                        /\ ENABLED initialize_client_except(p, n)
                  /\ attempts[p][n] = "connected" <=> (n \in DOMAIN results[p] /\ results[p][n])
                  /\ attempts[p][n] = "failed" <=> (n \in DOMAIN results[p] /\ ~results[p][n])
            /\ (pc[p] = "gather" /\ \E n \in DOMAIN attempts[p] : attempts[p][n] = "pending")
                  => ENABLED initialize_client_start(p)
            /\ InitRan(p) => DOMAIN attempts[p] = Succeeded(p) \cup FailedAttempts(p)
            /\ (pc[p] = "done" /\ snap[p].state = "ok") => exitCode[p] = 0

\* a step of the gather of p ends or suspends at most one task and leaves every
\* other task, every stored client and every returned result as it was
C4_StepIsolated ==
    \A p \in Procs :
        (kind[p] = "init" /\ pc[p] = "gather") =>
            /\ DOMAIN attempts'[p] = DOMAIN attempts[p]
            /\ Cardinality({n \in DOMAIN attempts[p] : attempts'[p][n] # attempts[p][n]}) <= 1
            /\ \A n \in DOMAIN attempts[p] :
                  attempts[p][n] \in {"connected", "failed"} =>
                      attempts'[p][n] = attempts[p][n]
            /\ \A n \in DOMAIN clients[p] :
                  n \in DOMAIN clients'[p] /\ clients'[p][n] = clients[p][n]
            /\ \A n \in DOMAIN results[p] :
                  n \in DOMAIN results'[p] /\ results'[p][n] = results[p][n]

\* C4: in the gather of initialize_all_clients the failure of one attempt never
\* cancels, prevents or changes the outcome of a sibling attempt and never makes
\* initialize_all_clients raise: in every interleaving each attempt ends by itself
\* as success or captured failure, and the process exits 0 when only attempts
\* failed.
C4_FailureIsolation == [](C4_Outcomes) /\ [][C4_StepIsolated]_vars

\* main has exited 0 after a batch in which the first attempt failed and the
\* second, resolved after it, connected
C4_Witness ==
    \E p \in Procs :
        /\ kind[p] = "init" /\ pc[p] = "done" /\ exitCode[p] = 0
        /\ Len(required[p]) = 2
        /\ attempts[p][required[p][1].name] = "failed"
        /\ attempts[p][required[p][2].name] = "connected"

\* C5: in every persisted document, whatever sequence of initialization, health
\* check, cleanup and diagnosis runs (one process at a time) led to it from a
\* document without client data, every name in activeConnections is a key of
\* mcpClients.
C5_ActiveConnectionsAreClients ==
    disk.state = "ok" =>
        activeConnectionsOf(disk.doc) \subseteq DOMAIN mcpClientsOf(disk.doc)

\* a document with active connections written by an initialization that ran after
\* a cleanup had disconnected the clients of an earlier one
C5_Witness ==
    /\ disk.state = "ok"
    /\ activeConnectionsOf(disk.doc) # {}
    /\ "disconnectedAt" \in DOMAIN disk.doc

TerminalStatuses == {"disconnected", "failed"}

\* disconnect_clients of p has returned
DisconnectRan(p) ==
    /\ kind[p] = "cleanup"
    /\ pc[p] \in {"metrics", "summary", "temp", "return", "done"}

\* C6: once disconnect_clients of perform_cleanup has run (it found nothing to
\* disconnect, or its save_config wrote the document), the persisted document has
\* an empty activeConnections and every record of mcpClients has a terminal
\* status: none is left 'connected' or 'unhealthy'.
C6_CleanupLeavesTerminalRecords ==
    \A p \in Procs :
        (DisconnectRan(p) /\ calls[p].saved \in {"ok", "none"}) =>
            /\ activeConnectionsOf(disk.doc) = {}
            /\ \A n \in DOMAIN mcpClientsOf(disk.doc) :
                  mcpClientsOf(disk.doc)[n]["status"] \in TerminalStatuses

\* a cleanup that has disconnected two connected clients and exited
C6_Witness ==
    \E p \in Procs :
        /\ kind[p] = "cleanup" /\ pc[p] = "done" /\ Persisted(p)
        /\ Cardinality(activeConnectionsOf(snap[p].doc)) = 2
        /\ Cardinality(DOMAIN mcpClientsOf(disk.doc)) = 2

\* C7: when the write of an output document fails (the task document in
\* save_config, the execution metrics, the cleanup summary), the process ends with
\* a non-zero status, and perform_cleanup returned False.
C7_WriteFailureIsReported ==
    \A p \in Procs :
        (pc[p] = "done" /\ calls[p].failedWrites \cap {"config", "metrics", "summary"} # {}) =>
            /\ exitCode[p] # 0
            /\ kind[p] = "cleanup" => ret[p] = "False"

\* what holds of the clients of a manager during and after a health_check: a
\* client whose probe raised is 'unhealthy' with last_error and still in
\* self.clients; the loop stops only when every client was probed
C8_Marked ==
    \A p \in Procs :
        kind[p] = "init" =>
            /\ \A n \in calls[p].probeErrors \cap DOMAIN clients[p] :
                  /\ clients[p][n]["status"] = "unhealthy"
                  /\ "last_error" \in DOMAIN clients[p][n]
            /\ pc[p] = "health" =>
                  /\ todo[p] # {}
                  /\ todo[p] \cup calls[p].probed = DOMAIN clients[p]
                  /\ todo[p] \cap calls[p].probed = {}
            /\ (pc[p] \in {"ready", "done"} /\ calls[p].hc > 0 /\ clients[p] # EmptyDict) =>
                  calls[p].probed = DOMAIN clients[p]

\* a step of health_check: no client leaves self.clients, no disconnect is issued,
\* nothing is written; the client whose probe raised becomes 'unhealthy' with
\* last_error and keeps its handle, every other record is unchanged (a client
\* whose probe answered keeps its status); after a probe that answered or raised
\* the loop goes on to the clients left
C8_ProbeStep ==
    \A p \in Procs :
        (kind[p] = "init" /\ pc[p] = "health") =>
            /\ DOMAIN clients'[p] = DOMAIN clients[p]
            /\ calls'[p].disconnects = calls[p].disconnects
            /\ disk' = disk
            /\ \A n \in DOMAIN clients[p] :
                  IF n \in calls'[p].probeErrors \ calls[p].probeErrors
                  THEN /\ clients'[p][n]["status"] = "unhealthy"
                       /\ "last_error" \in DOMAIN clients'[p][n]
                       /\ clients'[p][n]["client"] = clients[p][n]["client"]
                  ELSE clients'[p][n] = clients[p][n]
            /\ calls'[p].probed # calls[p].probed =>
                  /\ pc'[p] = "health" \/ todo'[p] = {}
                  /\ todo'[p] # {} => pc'[p] = "health"

\* C8: health_check only marks clients: a client whose list_tools probe fails
\* becomes 'unhealthy' and its last_error is recorded, its handle stays in
\* self.clients (no disconnect is issued), the remaining clients are still probed,
\* and a client whose probe succeeds keeps status 'connected'.
C8_HealthCheckOnlyMarks == [](C8_Marked) /\ [][C8_ProbeStep]_vars

\* a finished health check of two clients: the probe of one raised, the other
\* answered and is still 'connected'; both handles are held
C8_Witness ==
    \E p \in Procs :
        /\ kind[p] = "init" /\ pc[p] = "ready" /\ calls[p].hc = 1
        /\ Cardinality(DOMAIN clients[p]) = 2
        /\ Cardinality(calls[p].probeErrors) = 1
        /\ \E n \in DOMAIN clients[p] : clients[p][n]["status"] = "connected"
        /\ \E n \in DOMAIN clients[p] : clients[p][n]["status"] = "unhealthy"

\* the clients of the document are already disconnected
AlreadyDisconnected(file) ==
    /\ file.state = "ok"
    /\ activeConnectionsOf(file.doc) = {}
    /\ mcpClientsOf(file.doc) # EmptyDict
    /\ \A n \in DOMAIN mcpClientsOf(file.doc) :
          mcpClientsOf(file.doc)[n]["status"] = "disconnected"

\* a cleanup run that loaded a document whose clients are already disconnected
\* leaves the document as it loaded it
C9_SecondCleanupKeepsDocument ==
    \A p \in Procs :
        (kind[p] = "cleanup" /\ AlreadyDisconnected(snap[p])) =>
            /\ disk = snap[p]
            /\ pc[p] # "load" => config[p] = snap[p].doc

\* McpClientManager.cleanup never touches the document, and a second call of it
\* disconnects nothing
C9_ManagerCleanupStep ==
    \A p \in Procs :
        (kind[p] = "init" /\ pc[p] = "ready" /\ pc'[p] = "ready"
                          /\ calls'[p].hc = calls[p].hc) =>
            /\ disk' = disk
            /\ config'[p] = config[p]
            /\ clients[p] = EmptyDict => calls'[p] = calls[p]

\* C9: cleanup is idempotent on the document: a cleanup run on a task whose
\* clients are already disconnected leaves the persisted document unchanged (no
\* new error entry, no change of a status, disconnected_at, final_task_status or
\* activeConnections), whatever final status the run is given.
C9_CleanupIdempotent ==
    [](C9_SecondCleanupKeepsDocument) /\ [][C9_ManagerCleanupStep]_vars

\* a second cleanup has ended, given another final status than the one recorded
C9_Witness ==
    \E p \in Procs :
        /\ kind[p] = "cleanup" /\ pc[p] = "done"
        /\ AlreadyDisconnected(snap[p])
        /\ \E n \in DOMAIN mcpClientsOf(disk.doc) :
              mcpClientsOf(disk.doc)[n]["final_task_status"] # args[p]["status"]

\* C10: a process that loads the task document while another process is rewriting
\* it never reads an empty or partial document: it reads the complete old or the
\* complete new one, and so does not fall back to the empty configuration.
C10_AtomicSave ==
    \A p \in Procs :
        (calls[p].racedLoad /\ pc[p] # "load") =>
            /\ snap[p].state = "ok"
            /\ config[p] # EmptyDict

\* s is a prefix of t
IsPrefix(s, t) == Len(s) <= Len(t) /\ \A i \in 1..Len(s) : s[i] = t[i]

\* one step of the file, scripts running one at a time: a document leaves the
\* file only when the process that loaded exactly this document opens the file to
\* save, and the document that process then writes has the errors of the document
\* it loaded as a prefix of its own errors
C11_SaveStep ==
    /\ (disk.state = "ok" /\ disk' # disk) =>
          \E p \in Procs : /\ pc[p] = "save_open" /\ pc'[p] = "save_write"
                           /\ snap[p] = disk
    /\ (disk'.state = "ok" /\ disk' # disk) =>
          \E p \in Procs : /\ pc[p] = "save_write"
                           /\ snap[p].state = "ok"
                           /\ IsPrefix(errorsOf(snap[p].doc), errorsOf(disk'.doc))

\* C11: the errors sequence of the persisted document is append-only across runs
\* of initialization, health check, cleanup and diagnosis, one at a time: the
\* errors of every persisted document are a prefix of the errors of the document
\* that replaces it (no entry is changed, reordered or removed).  A persisted
\* state is a file that parses.
C11_ErrorsAppendOnly == [][C11_SaveStep]_vars

\* a second initialization has appended its entry behind the entries it loaded
C11_Witness ==
    \E p \in Procs :
        /\ kind[p] = "init" /\ calls[p].saved = "ok"
        /\ snap[p].state = "ok" /\ disk.state = "ok"
        /\ errorsOf(snap[p].doc) # <<>>
        /\ Len(errorsOf(disk.doc)) > Len(errorsOf(snap[p].doc))
        /\ IsPrefix(errorsOf(snap[p].doc), errorsOf(disk.doc))

\* p has loaded a file that is absent or does not parse
LoadedNoDocument(p) ==
    /\ pc[p] \notin {"idle", "load"}
    /\ snap[p].state \in {"absent", "malformed"}

\* the process of p ended in load_config: it has exited with status 1 before
\* any of its operations ran
LoadAborted(p) ==
    /\ pc[p] = "done" /\ exitCode[p] = 1
    /\ ret[p] = "unset" /\ calls[p].saves = 0 /\ required[p] = <<>>

\* C12: loading the task document never ends the process: in initialization,
\* cleanup and diagnosis alike, a file that is absent or malformed gives the
\* empty configuration and the script continues with defaults.
C12_LoadNeverAborts ==
    \A p \in Procs :
        LoadedNoDocument(p) => (config[p] = EmptyDict /\ ~LoadAborted(p))

\* a configuration path that does not exist: initialization has ended in load_config
MissingConfigPath(p) ==
    /\ kind[p] = "init"
    /\ pc[p] \notin {"idle", "load"}
    /\ snap[p].state = "absent"

\* C13: when the configuration path given to initialization does not exist, the
\* process exits with a non-zero status before requirement detection and before
\* any connection attempt, handshake or save starts, and the file is not created.
C13_MissingConfigIsFatal ==
    \A p \in Procs :
        MissingConfigPath(p) =>
            /\ pc[p] = "done" /\ exitCode[p] # 0
            /\ required[p] = <<>>
            /\ attempts[p] = EmptyDict /\ results[p] = EmptyDict
            /\ clients[p] = EmptyDict
            /\ calls[p].saves = 0 /\ calls[p].hc = 0
            /\ disk.state = "absent"

\* initialization was started on a path that does not exist, and has exited
C13_Witness ==
    \E p \in Procs :
        /\ MissingConfigPath(p)
        /\ pc[p] = "done" /\ exitCode[p] = 1
        /\ disk = FileAbsent

\* a diagnosis of p has written its report
Diagnosed(p) == kind[p] = "diagnose" /\ "diagnostic-report.json" \in DOMAIN out[p]
Report(p) == out[p]["diagnostic-report.json"]

\* the decision table of the categorization: (keywords, category) in priority order
Buckets ==
    << [keywords |-> connection_keywords, category |-> "connection_error"],
       [keywords |-> permission_keywords, category |-> "permission_error"],
       [keywords |-> not_found_keywords, category |-> "resource_not_found"],
       [keywords |-> format_keywords, category |-> "format_error"],
       [keywords |-> resource_keywords, category |-> "resource_exhaustion"],
       [keywords |-> security_keywords, category |-> "security_error"] >>

\* the buckets with a keyword that is a substring of the lower-cased text
Matching(text) ==
    {i \in 1..Len(Buckets) :
        \E k \in 1..Len(Buckets[i].keywords) :
            Contains(lower(text), Buckets[i].keywords[k])}

Earliest(S) == CHOOSE i \in S : \A j \in S : i <= j

\* C14: the category of a report is that of the earliest bucket, in the order
\* connection, permission, not-found, format, resource-exhaustion, security, with
\* a keyword that is a substring of the lower-cased error text, and
\* 'unknown_error' exactly when no bucket matches; it is a function of the error
\* text alone, whatever document was loaded.
C14_FirstMatchingBucket ==
    \A p \in Procs :
        Diagnosed(p) =>
            LET text == Report(p).originalError
            IN /\ text = args[p]["error"]
               /\ Report(p).errorCategory =
                     IF Matching(text) = {} THEN "unknown_error"
                     ELSE Buckets[Earliest(Matching(text))].category
               /\ (Report(p).errorCategory = "unknown_error") <=> (Matching(text) = {})

\* a text that matches two buckets got the category of the earlier one
C14_Witness ==
    \E p \in Procs :
        /\ Diagnosed(p)
        /\ Cardinality(Matching(Report(p).originalError)) >= 2
        /\ Report(p).errorCategory =
              Buckets[Earliest(Matching(Report(p).originalError))].category

\* the lists of the six known categories: fixed, ordered, four or five steps each
KnownCategoryActions(p) ==
    Matching(Report(p).originalError) # {} =>
        /\ Report(p).errorCategory \in {Buckets[i].category : i \in 1..Len(Buckets)}
        /\ Report(p).recommendedActions = recovery_actions[Report(p).errorCategory]
        /\ Len(Report(p).recommendedActions) \in 4..5

Unwell(doc) ==
    {n \in DOMAIN mcpClientsOf(doc) :
        mcpClientsOf(doc)[n]["status"] \in {"unhealthy", "failed"}}

\* C16: affectedClients of a diagnosis is the names of the clients of mcpClients
\* with status 'unhealthy' or 'failed' when there is one; all client names when
\* there is none and mcpClients is not empty; empty when mcpClients is empty.
C16_AffectedClients ==
    \A p \in Procs :
        Diagnosed(p) =>
            LET doc == snap[p].doc
            IN Report(p).affectedClients =
                  IF Unwell(doc) # {} THEN Unwell(doc)
                  ELSE IF DOMAIN mcpClientsOf(doc) # {} THEN DOMAIN mcpClientsOf(doc)
                  ELSE {}

\* a document with one failed and one connected client was diagnosed
C16_Witness ==
    \E p \in Procs :
        /\ Diagnosed(p)
        /\ Unwell(snap[p].doc) # {}
        /\ Unwell(snap[p].doc) # DOMAIN mcpClientsOf(snap[p].doc)
        /\ Report(p).affectedClients = Unwell(snap[p].doc)

\* the four categories of detection with their keywords
DetectionBuckets ==
    << [name |-> "database", keywords |-> db_keywords],
       [name |-> "filesystem", keywords |-> fs_keywords],
       [name |-> "github", keywords |-> github_keywords],
       [name |-> "api", keywords |-> api_keywords] >>

\* kw occurs in feature or taskTitle of doc, whatever the case of the letters
Occurs(kw, doc) ==
    \/ Contains(lower(Get(doc, "feature", <<>>)), kw)
    \/ Contains(lower(Get(doc, "taskTitle", <<>>)), kw)

\* the categories with a keyword occurring in the texts of doc
Expected(doc) ==
    {DetectionBuckets[i].name :
        i \in {j \in 1..Len(DetectionBuckets) :
                  \E k \in 1..Len(DetectionBuckets[j].keywords) :
                      Occurs(DetectionBuckets[j].keywords[k], doc)}}

\* detection of p has run on a document
Detected(p) ==
    /\ kind[p] = "init"
    /\ pc[p] \notin {"idle", "load", "detect"}
    /\ snap[p].state = "ok"

\* C17: detection emits exactly one requirement for each of the categories
\* database, filesystem, github (vcs), api with a keyword occurring
\* case-insensitively as a substring of feature or taskTitle and none for the
\* others, each match independent of the others, no category or name twice; with
\* no matching keyword the result is empty and no connection attempt is started.
C17_DetectionByKeywords ==
    \A p \in Procs :
        Detected(p) =>
            /\ NamesOf(required[p]) = Expected(snap[p].doc)
            /\ Len(required[p]) = Cardinality(Expected(snap[p].doc))
            /\ \A i \in 1..Len(required[p]) : required[p][i].type = required[p][i].name
            /\ DOMAIN attempts[p] = Expected(snap[p].doc)
            /\ Expected(snap[p].doc) = {} =>
                  /\ required[p] = <<>>
                  /\ attempts[p] = EmptyDict /\ results[p] = EmptyDict
                  /\ clients[p] = EmptyDict /\ calls[p].saves = 0

\* all four categories were detected at once, one of them by a keyword in the title
C17_Witness ==
    \E p \in Procs :
        /\ Detected(p)
        /\ Len(required[p]) = 4
        /\ NamesOf(required[p]) = ClientNames
        /\ DOMAIN attempts[p] = ClientNames

\* the save of initialize_all_clients has started
SaveStarted(p) == pc[p] \in {"save_open", "save_write"} \/ calls[p].saves >= 1

\* every task of the gather has resolved
AllResolved(p) == \A n \in DOMAIN attempts[p] : attempts[p][n] \in {"connected", "failed"}

C18_SaveAfterAll ==
    \A p \in Procs :
        kind[p] = "init" =>
            /\ SaveStarted(p) => AllResolved(p)
            /\ calls[p].saves <= 1
            /\ InitRan(p) => calls[p].saves = 1

\* C18: initialize_all_clients is a wait-all join: the one save of the document
\* is started only when every connection attempt of the batch has resolved, in
\* success or in a captured failure, never after the first failure or the first
\* success; there is exactly one save per call with N >= 1 requirements; and when
\* every attempt resolves, the save is reached.
C18_WaitAllJoin ==
    /\ [](C18_SaveAfterAll)
    /\ \A p \in SeqProcs :
          (kind[p] = "init" /\ pc[p] = "gather") ~> (kind[p] = "init" /\ calls[p].saves = 1)

\* the save was made after a batch in which an attempt failed and another succeeded
C18_Witness ==
    \E p \in Procs :
        /\ kind[p] = "init" /\ calls[p].saves = 1
        /\ Cardinality(DOMAIN attempts[p]) >= 2
        /\ AllResolved(p)
        /\ FailedAttempts(p) # {} /\ Succeeded(p) # {}

\* health_check of p is running: in its loop, or suspended in a probe
HealthCheckRunning(p) == kind[p] = "init" /\ pc[p] \in {"health", "awaiting"}

\* C19: health_check always terminates: every probe is issued with a bounded
\* wait, so a running health check can always take its next step; a client that
\* never answers is marked 'unhealthy' when the bound expires and the loop goes on
\* to the remaining clients instead of waiting forever.
C19_HealthCheckTerminates ==
    \A p \in Procs : HealthCheckRunning(p) => ENABLED Step(p)

\* the clients whose connection attempt failed in the initialization that ran just
\* before the diagnosis of p: the clients of the entries that run appended
FailedJustBefore(p) ==
    {errorsOf(snap[p].doc)[i].client :
        i \in {j \in 1..Len(errorsOf(snap[p].doc)) :
                  /\ errorsOf(snap[p].doc)[j].type = "connection_failed"
                  /\ errorsOf(snap[p].doc)[j].timestamp = clock - 1}}

\* C20: a client whose connection attempt failed during initialize_all_clients is
\* named in affectedClients of the diagnosis that follows on the same task, also
\* when other clients of the batch connected.
C20_FailedClientIsAffected ==
    \A p \in Procs :
        (Diagnosed(p) /\ snap[p].state = "ok") =>
            FailedJustBefore(p) \subseteq Report(p).affectedClients

\* a step of McpClientManager.cleanup taken by p
ManagerCleanupStep(p) ==
    /\ kind[p] = "init" /\ pc[p] = "ready" /\ pc'[p] = "ready"
    /\ calls'[p].hc = calls[p].hc

\* cleanup has attempted a disconnect on every client that held a handle, the
\* ones after a disconnect that raised included, and returns with no handle left
C21_CleanupStep ==
    \A p \in Procs :
        ManagerCleanupStep(p) =>
            /\ DOMAIN clients[p] \subseteq calls'[p].disconnects
            /\ calls'[p].disconnectErrors \subseteq calls'[p].disconnects
            /\ clients'[p] = EmptyDict
            /\ exitCode'[p] = exitCode[p]

\* a disconnect that raised has not ended the process: the manager has no handle
\* left and goes on, and main ends with status 0
C21_CleanupReturned ==
    \A p \in Procs :
        (kind[p] = "init" /\ calls[p].disconnectErrors # {}) =>
            /\ clients[p] = EmptyDict
            /\ pc[p] \in {"ready", "done"}
            /\ pc[p] = "done" => exitCode[p] = 0

\* C21: McpClientManager.cleanup attempts a disconnect on every client that still
\* holds a handle; a disconnect that raises neither stops the attempts on the
\* remaining clients nor makes cleanup raise; when cleanup returns, the set of
\* handles is empty whether or not a disconnect failed.
C21_CleanupDisconnectsAll == [](C21_CleanupReturned) /\ [][C21_CleanupStep]_vars

\* a cleanup of two clients in which one disconnect raised and the other did not
C21_Witness ==
    \E p \in Procs :
        /\ kind[p] = "init" /\ clients[p] = EmptyDict
        /\ Cardinality(calls[p].disconnects) = 2
        /\ Cardinality(calls[p].disconnectErrors) = 1

\* the clients disconnect_clients of p marks: the names of activeConnections of the
\* document it loaded
MarkedByCleanup(p) ==
    activeConnectionsOf(snap[p].doc) \cap DOMAIN mcpClientsOf(snap[p].doc)

\* the steps of perform_cleanup that p has behind it, in their order: the metrics
\* only after the disconnect step and its save, the summary only after the
\* metrics, the removal of transient files only after the summary
C22_Order ==
    \A p \in Procs :
        kind[p] = "cleanup" =>
            /\ calls[p].metrics # None =>
                  /\ pc[p] \in {"summary", "temp", "return", "done"}
                  /\ activeConnectionsOf(config[p]) = {}
                  /\ activeConnectionsOf(snap[p].doc) # {} => calls[p].saves = 1
                  /\ calls[p].saved = "ok" => disk = FileOk(config[p])
            /\ calls[p].summary # None => calls[p].metrics # None
            /\ pc[p] \in {"return", "done"} => calls[p].summary # None
            /\ pc[p] \in {"load", "disconnect", "save_open", "save_write",
                          "metrics", "summary", "temp"} => calls[p].unlinkErrors = {}

\* the metrics read the records as the disconnect step left them
C22_MetricsAfterDisconnect ==
    \A p \in Procs :
        (kind[p] = "cleanup" /\ calls[p].metrics # None) =>
            \A n \in MarkedByCleanup(p) :
                LET m == calls[p].metrics[1].clientConnections[n]
                IN /\ m.status = "disconnected"
                   /\ mcpClientsOf(config[p])[n]["final_task_status"] = args[p]["status"]
                   /\ m.connected_at # None /\ m.disconnected_at # None
                   /\ m.duration_seconds = Some(m.disconnected_at[1] - m.connected_at[1])

\* perform_cleanup returns True whether or not a transient file could be removed
C22_UnlinkFailureIgnored ==
    \A p \in Procs :
        (kind[p] = "cleanup" /\ pc[p] \in {"return", "done"}) =>
            /\ ret[p] = "True"
            /\ pc[p] = "done" => exitCode[p] = 0

\* transient files are removed by the last step only
C22_TempStep ==
    tempFiles' # tempFiles =>
        \E p \in Procs : /\ kind[p] = "cleanup" /\ pc[p] = "temp"
                         /\ calls[p].summary # None

\* C22: perform_cleanup runs its steps in the order (a) mark every name of
\* activeConnections 'disconnected' with the given final status, clear
\* activeConnections and save, (b) compute and write the metrics, (c) write the
\* summary, (d) remove transient files; so (b) reads the records after (a) and
\* every client disconnected in (a) has connected_at and disconnected_at when its
\* duration is computed; a transient file that cannot be removed in (d) does not
\* change the result.
C22_CleanupOrder ==
    /\ [](C22_Order /\ C22_MetricsAfterDisconnect /\ C22_UnlinkFailureIgnored)
    /\ [][C22_TempStep]_vars

\* a cleanup has ended with status 0 although a transient file could not be
\* removed, its metrics holding the duration of a client it disconnected
C22_Witness ==
    \E p \in Procs :
        /\ kind[p] = "cleanup" /\ pc[p] = "done" /\ exitCode[p] = 0
        /\ calls[p].unlinkErrors # {}
        /\ \E n \in MarkedByCleanup(p) :
              /\ calls[p].metrics[1].clientConnections[n].duration_seconds # None
              /\ calls[p].metrics[1].clientConnections[n].duration_seconds[1] >= 1

\* C23: cleanupSuccess of the cleanup summary is false if and only if the write of
\* the summary document itself failed; it stays true when there were connection
\* errors, when the save of the task document failed and when the write of the
\* execution metrics failed.
C23_CleanupSuccess ==
    \A p \in Procs :
        (kind[p] = "cleanup" /\ calls[p].summary # None) =>
            /\ calls[p].summary[1].cleanupSuccess = ("summary" \notin calls[p].failedWrites)
            /\ "cleanup-summary.json" \in DOMAIN out[p] =>
                  /\ out[p]["cleanup-summary.json"].cleanupSuccess
                  /\ out[p]["cleanup-summary.json"] = calls[p].summary[1]

\* a summary with cleanupSuccess true after a cleanup in which the save of the
\* document and the write of the metrics failed, on a task with connection errors
C23_Witness ==
    \E p \in Procs :
        /\ kind[p] = "cleanup" /\ calls[p].summary # None
        /\ calls[p].summary[1].cleanupSuccess
        /\ calls[p].summary[1].errorsEncountered >= 1
        /\ calls[p].failedWrites = {"config", "metrics"}

\* p completes a save: json.dump returned and the file was closed without an error
SaveCompletes(p) == pc[p] = "save_write" /\ calls'[p].saved = "ok"

\* the document a completed save leaves in the file is the context of the process
\* that saved, as a whole
C24_WriteStep ==
    \A p \in Procs : SaveCompletes(p) => disk' = FileOk(config[p])

\* C24: persistence is whole-document last-writer-wins: when two processes of one
\* task each load the document, change their copy and save, in any interleaving,
\* the persisted document is the in-memory context of the process that saved
\* last, and what the other process had saved is lost.
C24_LastWriterWins == [][C24_WriteStep]_vars

\* p takes a step of health_check: its start, or an iteration of its loop
HealthCheckStep(p) ==
    /\ kind[p] = "init"
    /\ \/ pc[p] = "health"
       \/ pc[p] = "ready" /\ calls'[p].hc > calls[p].hc

\* a step of health_check writes neither the file nor self.config
C25_HealthStep ==
    \A p \in Procs :
        HealthCheckStep(p) =>
            /\ disk' = disk
            /\ config'[p] = config[p]
            /\ calls'[p].saves = calls[p].saves

\* no persisted record is 'unhealthy' or has a last_error; a run that made a
\* health check saved before it and not again, and the records it wrote are
\* 'connected' still
C25_PersistedRecords ==
    /\ disk.state = "ok" =>
          \A n \in DOMAIN mcpClientsOf(disk.doc) :
              /\ mcpClientsOf(disk.doc)[n]["status"] # "unhealthy"
              /\ "last_error" \notin DOMAIN mcpClientsOf(disk.doc)[n]
    /\ \A p \in Procs :
          (kind[p] = "init" /\ calls[p].hc > 0) =>
              /\ calls[p].saves <= 1
              /\ pc[p] \notin {"save_open", "save_write"}
              /\ Persisted(p) =>
                    /\ disk = FileOk(config[p])
                    /\ DOMAIN mcpClientsOf(disk.doc) = DOMAIN clients[p] \cup calls[p].disconnects
                    /\ \A n \in DOMAIN mcpClientsOf(disk.doc) :
                          mcpClientsOf(disk.doc)[n]["status"] = "connected"

\* C25: health_check changes only the in-memory records of the manager and never
\* the persisted document: main saves before the health check and not after it,
\* so after a run with --health-check no persisted record is 'unhealthy' or has a
\* last_error, and every record that run wrote has status 'connected'.
C25_HealthCheckNotPersisted == [](C25_PersistedRecords) /\ [][C25_HealthStep]_vars

\* a run with --health-check has ended: a probe failed and the manager holds the
\* client as 'unhealthy', the record it had saved is 'connected'
C25_Witness ==
    \E p \in Procs :
        /\ kind[p] = "init" /\ args[p]["mode"] = "main_hc" /\ pc[p] = "done"
        /\ Persisted(p) /\ disk.state = "ok"
        /\ \E n \in calls[p].probeErrors :
              /\ clients[p][n]["status"] = "unhealthy"
              /\ mcpClientsOf(disk.doc)[n]["status"] = "connected"

\* the probe of n by p answered in this step
ProbeAnswered(p, n) ==
    /\ n \in calls'[p].probed \ calls[p].probed
    /\ n \notin calls'[p].probeErrors

\* a step of a running manager: an 'unhealthy' client stays 'unhealthy'; the only
\* change of a status is connected -> unhealthy; a probe that answers leaves the
\* record as it is; a health check that starts takes every client held, the
\* unhealthy ones included; a handle leaves self.clients in cleanup only
C26_Step ==
    \A p \in Procs :
        (kind[p] = "init" /\ pc[p] \notin {"idle", "done"}) =>
            /\ \A n \in DOMAIN clients[p] \cap DOMAIN clients'[p] :
                  /\ clients[p][n]["status"] = "unhealthy" =>
                        clients'[p][n]["status"] = "unhealthy"
                  /\ clients'[p][n]["status"] # clients[p][n]["status"] =>
                        /\ clients[p][n]["status"] = "connected"
                        /\ clients'[p][n]["status"] = "unhealthy"
                        /\ n \in calls'[p].probeErrors
                  /\ ProbeAnswered(p, n) => clients'[p][n] = clients[p][n]
            /\ (pc[p] = "ready" /\ calls'[p].hc > calls[p].hc) =>
                  todo'[p] = DOMAIN clients[p]
            /\ ~(DOMAIN clients[p] \subseteq DOMAIN clients'[p]) =>
                  ManagerCleanupStep(p) /\ clients'[p] = EmptyDict

\* C26: 'unhealthy' is sticky within a manager: once a health check has marked a
\* client 'unhealthy', no later health check returns it to 'connected', even
\* when its probe answers (status and last_error stay); the only status change a
\* health check makes is connected -> unhealthy; the client is probed again by
\* every later health check until cleanup clears the handles.
C26_UnhealthyIsSticky == [][C26_Step]_vars

\* in a second health check the probe of a client marked 'unhealthy' by the first
\* has answered, and the client is 'unhealthy' still
C26_Witness ==
    \E p \in Procs :
        /\ kind[p] = "init" /\ calls[p].hc = 2
        /\ \E n \in calls[p].probed \ calls[p].probeErrors :
              /\ n \in DOMAIN clients[p]
              /\ clients[p][n]["status"] = "unhealthy"
              /\ clients[p][n]["last_error"] = "probe failed"

\* C27: in the execution metrics of perform_cleanup, successfulConnections +
\* failedConnections = totalClients = the number of records of mcpClients, and
\* successfulConnections counts the records whose status is 'connected' when the
\* metrics are collected; as they are collected after the disconnect step, every
\* client that was in activeConnections is counted in failedConnections, and
\* successfulConnections is 0 for a document written by initialization.
C27_MetricsCounts ==
    \A p \in Procs :
        (kind[p] = "cleanup" /\ calls[p].metrics # None) =>
            LET m == calls[p].metrics[1]
                records == mcpClientsOf(config[p])
                connected == {n \in DOMAIN records : records[n]["status"] = "connected"}
            IN /\ m.totalClients = Cardinality(DOMAIN records)
               /\ DOMAIN records = DOMAIN mcpClientsOf(snap[p].doc)
               /\ m.successfulConnections + m.failedConnections = m.totalClients
               /\ m.successfulConnections = Cardinality(connected)
               /\ connected \cap MarkedByCleanup(p) = {}
               /\ m.failedConnections >= Cardinality(MarkedByCleanup(p))
               /\ m.successfulConnections = 0
               /\ "execution-metrics.json" \in DOMAIN out[p] =>
                     out[p]["execution-metrics.json"] = m

\* the metrics of a cleanup that disconnected two clients: both are counted in
\* failedConnections
C27_Witness ==
    \E p \in Procs :
        /\ kind[p] = "cleanup" /\ calls[p].metrics # None
        /\ Cardinality(MarkedByCleanup(p)) = 2
        /\ calls[p].metrics[1].totalClients = 2
        /\ calls[p].metrics[1].failedConnections = 2
        /\ calls[p].metrics[1].successfulConnections = 0

====
